---- MODULE Spec2Model ----
(***************************************************************************)
(* Screen-capture detection and response engine of bookapp-win.            *)
(*                                                                         *)
(* Main process (src/src/renderer/src/App.tsx, lines 137-617): the         *)
(* ScreenCaptureProtection singleton, its setInterval scheduler, the       *)
(* asynchronous detection passes, the response to a positive detection and *)
(* the ipcMain handlers, with the permission handlers.                     *)
(* Renderer (src/unnamed/part_000): the response handler of the            *)
(* useScreenshotProtection hook (lines 290-519), startProtection and       *)
(* stopProtection of its two instances, the consent modal (lines 1-289)    *)
(* and the protection effect of InnerApp (App.tsx, lines 19-135).          *)
(*                                                                         *)
(* One step of the model is one run-to-completion turn of a JavaScript     *)
(* event loop: a handler runs from the event that resumes it up to its     *)
(* next await of an external event (a child process, a dialog, a timer).   *)
(***************************************************************************)
EXTENDS Integers, Sequences, FiniteSets, TLC

(***************************************************************************)
(* Bounds of the model.                                                    *)
(***************************************************************************)
\* detection passes started in one behaviour
MaxPasses == 2
\* responses started by the renderer handler in one behaviour
MaxRendererResponses == 2
\* elapsed time of a pending grace timer saturates here (milliseconds)
MaxElapsed == 1200

(***************************************************************************)
(* Text: a string is a sequence of one-character strings.                  *)
(***************************************************************************)
NULL == 0

\* String.prototype.toLowerCase on one character
LowerChar(c) ==
  CASE c = "A" -> "a" [] c = "B" -> "b" [] c = "C" -> "c" [] c = "E" -> "e"
    [] c = "G" -> "g" [] c = "I" -> "i" [] c = "L" -> "l" [] c = "M" -> "m"
    [] c = "N" -> "n" [] c = "O" -> "o" [] c = "S" -> "s" [] c = "T" -> "t"
    [] c = "W" -> "w" [] c = "X" -> "x"
    [] OTHER -> c

\* stdout.toLowerCase()
ToLowerCase(s) == [k \in 1..Len(s) |-> LowerChar(s[k])]

\* processes.includes(proc)
Includes(s, sub) ==
  \E k \in 0..(Len(s) - Len(sub)) : SubSeq(s, k + 1, k + Len(sub)) = sub

\* new RegExp(proc, 'i').test(processes): "." matches any character
RegExpTest(pat, s) ==
  \E k \in 0..(Len(s) - Len(pat)) :
    \A j \in 1..Len(pat) :
      pat[j] = "." \/ LowerChar(s[k + j]) = LowerChar(pat[j])

\* criticalProcesses of detectScreenCapture
criticalProcesses ==
  { <<"o","b","s">>, <<"o","b","s","6","4">>,
    <<"o","b","s","-","s","t","u","d","i","o">>,
    <<"b","a","n","d","i","c","a","m">>, <<"f","r","a","p","s">> }

\* ScreenCaptureProtection.suspiciousProcesses
suspiciousProcesses ==
  { <<"o","b","s">>, <<"o","b","s","6","4">>,
    <<"o","b","s","-","s","t","u","d","i","o">>,
    <<"s","t","r","e","a","m","l","a","b","s">>, <<"x","s","p","l","i","t">>,
    <<"b","a","n","d","i","c","a","m">>, <<"f","r","a","p","s">>,
    <<"c","a","m","t","a","s","i","a">>, <<"s","n","a","g","i","t">>,
    <<"s","c","r","e","e","n","p","r","e","s","s","o">>,
    <<"f","a","s","t","s","t","o","n","e">>, <<"p","i","c","p","i","c","k">> }

\* captureProcesses of detectWindowsScreenCapture
captureProcesses == { <<"w","i","n","l","o","g","o","n",".","e","x","e">> }

\* screenRecordingProcesses of detectMacOSScreenCapture (pgrep -f, in order)
screenRecordingProcesses ==
  << "screencapture", "Screenshot", "QuickTime Player", "CleanMyMac",
     "CleanMaster- Remove Junk Files", "Keka", "The Unarchiver",
     "ScreenSearch", "Skitch", "Snagit", "CloudApp", "Droplr",
     "Monosnap", "LightShot", "Gyazo", "Capto" >>

\* what the process-listing command (tasklist, ps aux, wmic) can print
ProcessListings ==
  { <<"c","h","r","o","m","e">>,
    <<"o","b","s">>,
    <<"O","B","S","6","4",".","e","x","e">>,
    <<"C","a","m","t","a","s","i","a">>,
    <<"w","i","n","l","o","g","o","n",".","e","x","e">> }

Platforms == {"darwin", "win32", "linux"}

VARIABLES
  platform,                   \* process.platform
  developmentMode,            \* ScreenCaptureProtection.developmentMode
  disableScreenProtection,    \* process.env.DISABLE_SCREEN_PROTECTION === 'true'
  processListing,             \* the OS process table, as the listing command prints it
  isMonitoring,               \* ScreenCaptureProtection.isMonitoring
  screenProtectionActive,     \* global screenProtectionActive
  screenCaptureCheckInterval, \* global timer handle, NULL or a handle
  activeTimers,               \* the setInterval handles the runtime keeps alive
  detectedProcess,            \* ScreenCaptureProtection.detectedProcess
  passes,                     \* the detection passes: position and result
  responses,                  \* the responses of handleScreenCaptureDetected
  sent,                       \* notifications sent to the renderer
  appQuit,                    \* app.quit() has been called
  reply,                      \* the last reply of an ipcMain.handle handler
  rendererResponses,          \* the responses of handleScreenshotDetected
  scan,                       \* the last call of a process scan: arguments and result
  osConsent,                  \* the screen-recording consent status the OS holds
  permissionCalls,            \* the permission requests handled, with their OS calls
  isProtectionActiveRef,      \* isProtectionActiveRef.current of each hook instance
  hasPermission,              \* hasPermission of each hook instance
  platformInfo,               \* platformInfo?.platform of each hook instance
  invokes,                    \* ipcRenderer.invoke calls not yet resumed, oldest first
  requestsSent,               \* start/stop requests each instance sent in a row
  initializePlatformInfo,     \* position of initializePlatformInfo in each instance
  isAuthenticated,            \* useAuth().isAuthenticated
  privacyConsentGiven,        \* InnerApp state privacyConsentGiven
  showPrivacyConsent          \* InnerApp state showPrivacyConsent

envVars == <<platform, developmentMode, disableScreenProtection>>
schedVars == <<isMonitoring, screenCaptureCheckInterval, activeTimers>>
mainVars == <<isMonitoring, screenProtectionActive, screenCaptureCheckInterval,
              activeTimers, detectedProcess, passes, responses, sent, appQuit, reply>>
permVars == <<osConsent, permissionCalls>>
hookVars == <<isProtectionActiveRef, hasPermission, platformInfo, invokes,
              requestsSent, initializePlatformInfo, isAuthenticated,
              privacyConsentGiven, showPrivacyConsent>>
vars == <<platform, developmentMode, disableScreenProtection, processListing,
          isMonitoring, screenProtectionActive, screenCaptureCheckInterval,
          activeTimers, detectedProcess, passes, responses, sent, appQuit, reply,
          rendererResponses, scan, permVars, hookVars>>

PassIds == 1..MaxPasses

NoPass == [pc |-> "unused", idx |-> 0, result |-> "pending"]
NoReply == [channel |-> "none", success |-> FALSE]
NoScan == [fn |-> "none", processNames |-> <<>>, stdout |-> <<>>, ok |-> FALSE,
           result |-> FALSE]

\* the two instances of useScreenshotProtection: the one PrivacyConsentModal
\* creates and the one InnerApp creates
Hooks == {"PrivacyConsentModal", "InnerApp"}

\* platformInfo is null until the reply of check-platform-info is stored
NoPlatformInfo == "null"

\* systemPreferences.getMediaAccessStatus('screen')
ConsentStatuses == {"not-determined", "granted", "denied"}

Init ==
  /\ platform \in Platforms
  /\ developmentMode \in BOOLEAN
  /\ disableScreenProtection \in BOOLEAN
  /\ processListing \in ProcessListings
  /\ isMonitoring = FALSE
  /\ screenProtectionActive = FALSE
  /\ screenCaptureCheckInterval = NULL
  /\ activeTimers = {}
  /\ detectedProcess = ""
  /\ passes = [i \in PassIds |-> NoPass]
  /\ responses = <<>>
  /\ sent = <<>>
  /\ appQuit = FALSE
  /\ reply = NoReply
  /\ rendererResponses = <<>>
  /\ scan = NoScan
  /\ osConsent = "not-determined"
  /\ permissionCalls = <<>>
  /\ isProtectionActiveRef = [h \in Hooks |-> FALSE]
  /\ hasPermission = [h \in Hooks |-> FALSE]
  /\ platformInfo = [h \in Hooks |-> NoPlatformInfo]
  /\ initializePlatformInfo = [h \in Hooks |-> "check-platform-info"]
  /\ invokes = <<>>
  /\ requestsSent = [h \in Hooks |-> [start |-> 0, stop |-> 0]]
  /\ isAuthenticated = FALSE
  /\ privacyConsentGiven = FALSE
  /\ showPrivacyConsent = TRUE


(***************************************************************************)
(* Detection Cycle Scheduler: startMonitoring / stopMonitoring.            *)
(***************************************************************************)
\* the handle setInterval returns: one that no live timer has
NewHandle ==
  CHOOSE h \in 1..(Cardinality(activeTimers) + 1) :
    /\ h \notin activeTimers
    /\ \A g \in 1..(h - 1) : g \in activeTimers

\* startMonitoring without its already-monitoring guard
StartMonitoringNoGuard ==
  IF disableScreenProtection
    THEN /\ isMonitoring' = TRUE
         /\ UNCHANGED <<screenCaptureCheckInterval, activeTimers>>
    ELSE /\ isMonitoring' = TRUE
         /\ screenCaptureCheckInterval' = NewHandle
         /\ activeTimers' = activeTimers \cup {NewHandle}

\* startMonitoring without its check of DISABLE_SCREEN_PROTECTION
StartMonitoringIgnoresDisable ==
  IF isMonitoring
    THEN UNCHANGED schedVars
    ELSE /\ isMonitoring' = TRUE
         /\ screenCaptureCheckInterval' = NewHandle
         /\ activeTimers' = activeTimers \cup {NewHandle}

StartMonitoring ==
  IF isMonitoring
    THEN UNCHANGED schedVars
    ELSE IF disableScreenProtection
      THEN /\ isMonitoring' = TRUE
           /\ UNCHANGED <<screenCaptureCheckInterval, activeTimers>>
      ELSE /\ isMonitoring' = TRUE
           /\ screenCaptureCheckInterval' = NewHandle
           /\ activeTimers' = activeTimers \cup {NewHandle}

\* stopMonitoring that drops the handle without clearInterval
StopMonitoringNoClear ==
  IF ~isMonitoring
    THEN UNCHANGED schedVars
    ELSE /\ isMonitoring' = FALSE
         /\ screenCaptureCheckInterval' = NULL
         /\ UNCHANGED activeTimers

\* stopMonitoring that calls clearInterval but keeps the stale handle
StopMonitoringKeepsHandle ==
  IF ~isMonitoring
    THEN UNCHANGED schedVars
    ELSE /\ isMonitoring' = FALSE
         /\ activeTimers' = activeTimers \ {screenCaptureCheckInterval}
         /\ UNCHANGED screenCaptureCheckInterval

\* stopMonitoring
StopMonitoring ==
  IF ~isMonitoring
    THEN UNCHANGED schedVars
    ELSE /\ isMonitoring' = FALSE
         /\ IF screenCaptureCheckInterval # NULL
              THEN /\ activeTimers' = activeTimers \ {screenCaptureCheckInterval}
                   /\ screenCaptureCheckInterval' = NULL
              ELSE UNCHANGED <<screenCaptureCheckInterval, activeTimers>>

(***************************************************************************)
(* ipcMain handlers of the screen protection.                              *)
(***************************************************************************)
\* the body of ipcMain.handle('start-screen-protection')
StartScreenProtectionHandler ==
  /\ screenProtectionActive' = TRUE
  /\ StartMonitoring
  /\ reply' = [channel |-> "start-screen-protection", success |-> TRUE]

IpcStartScreenProtection ==
  /\ ~appQuit
  /\ StartScreenProtectionHandler
  /\ UNCHANGED <<envVars, scan, permVars, hookVars,
                 processListing, detectedProcess, passes, responses,
                 sent, appQuit, rendererResponses>>

\* the body of ipcMain.handle('stop-screen-protection')
StopScreenProtectionHandler ==
  /\ screenProtectionActive' = FALSE
  /\ StopMonitoring
  /\ reply' = [channel |-> "stop-screen-protection", success |-> TRUE]

\* stop-screen-protection that leaves the global screenProtectionActive set
IpcStopScreenProtectionKeepsActive ==
  /\ ~appQuit
  /\ UNCHANGED screenProtectionActive
  /\ StopMonitoring
  /\ reply' = [channel |-> "stop-screen-protection", success |-> TRUE]
  /\ UNCHANGED <<envVars, scan, permVars, hookVars,
                 processListing, detectedProcess, passes, responses,
                 sent, appQuit, rendererResponses>>

IpcStopScreenProtection ==
  /\ ~appQuit
  /\ StopScreenProtectionHandler
  /\ UNCHANGED <<envVars, scan, permVars, hookVars,
                 processListing, detectedProcess, passes, responses,
                 sent, appQuit, rendererResponses>>

\* the reply of ipcMain.handle('get-screen-protection-status'): a pure read
GetScreenProtectionStatus ==
  [active |-> screenProtectionActive, platform |-> platform]

(***************************************************************************)
(* The response of the main process to a positive detection.               *)
(***************************************************************************)
\* the delays of the two buttons exchanged
QuitDelayExchanged(response) == IF response = 0 THEN 1000 ELSE 0

\* delay of app.quit() after the dialog: response 0 is OK, 1 is Cancel
QuitDelay(response) == IF response = 0 THEN 0 ELSE 1000

\* handleScreenCaptureDetected that shows the dialog without stopMonitoring
HandleScreenCaptureDetectedNoStop ==
  /\ UNCHANGED schedVars
  /\ responses' = Append(responses, [phase |-> "alerting", response |-> -1,
                                      delay |-> 0, elapsed |-> 0])
  /\ UNCHANGED sent

\* handleScreenCaptureDetected up to its await of dialog.showMessageBox
HandleScreenCaptureDetected ==
  /\ StopMonitoring
  /\ responses' = Append(responses, [phase |-> "alerting", response |-> -1,
                                      delay |-> 0, elapsed |-> 0])
  /\ UNCHANGED sent

\* the dialog resolves: app.quit() at once on OK, setTimeout on Cancel
DialogResolved(r, response) ==
  /\ ~appQuit
  /\ r \in DOMAIN responses
  /\ responses[r].phase = "alerting"
  /\ responses' = [responses EXCEPT ![r] =
                     [phase |-> IF response = 0 THEN "quit" ELSE "delay",
                      response |-> response,
                      delay |-> QuitDelay(response), elapsed |-> 0]]
  /\ appQuit' = (response = 0)
  /\ UNCHANGED <<envVars, scan, permVars, hookVars,
                 processListing, isMonitoring, screenProtectionActive,
                 screenCaptureCheckInterval, activeTimers, detectedProcess,
                 passes, sent, reply, rendererResponses>>

\* the setTimeout callback of the Cancel path
QuitTimerFires(r) ==
  /\ ~appQuit
  /\ r \in DOMAIN responses
  /\ responses[r].phase = "delay"
  /\ responses[r].elapsed >= responses[r].delay
  /\ responses' = [responses EXCEPT ![r].phase = "quit"]
  /\ appQuit' = TRUE
  /\ UNCHANGED <<envVars, scan, permVars, hookVars,
                 processListing, isMonitoring, screenProtectionActive,
                 screenCaptureCheckInterval, activeTimers, detectedProcess,
                 passes, sent, reply, rendererResponses>>

(***************************************************************************)
(* Detection passes: the setInterval callback and detectScreenCapture.     *)
(***************************************************************************)
InFlight(i) == passes[i].pc \notin {"unused", "done"}

Goto(i, pc, idx) ==
  /\ passes' = [passes EXCEPT ![i] = [pc |-> pc, idx |-> idx, result |-> "pending"]]
  /\ UNCHANGED <<schedVars, responses, sent>>

\* detectScreenCapture returns; the timer callback responds to true
Return(i, result) ==
  /\ passes' = [passes EXCEPT ![i] = [pc |-> "done", idx |-> 0, result |-> result]]
  /\ IF result # "none"
       THEN HandleScreenCaptureDetected
       ELSE UNCHANGED <<schedVars, responses, sent>>

\* a timer fires: the callback runs up to the first await of execAsync
Tick(t) ==
  /\ ~appQuit
  /\ t \in activeTimers
  /\ \E i \in PassIds :
       /\ passes[i].pc = "unused"
       /\ \A j \in 1..(i - 1) : passes[j].pc # "unused"
       /\ passes' = [passes EXCEPT ![i] = [pc |-> "critical", idx |-> 0,
                                           result |-> "pending"]]
  /\ UNCHANGED <<envVars, scan, permVars, hookVars,
                 processListing, isMonitoring, screenProtectionActive,
                 screenCaptureCheckInterval, activeTimers, detectedProcess,
                 responses, sent, appQuit, reply, rendererResponses>>

\* detectScreenCapture without the early return of development mode
AfterMacOSInDevelopmentToo(i) == Goto(i, "suspicious", 0)

\* detectScreenCapture from line 220 on
AfterMacOS(i) ==
  IF developmentMode THEN Return(i, "none") ELSE Goto(i, "suspicious", 0)

\* detectScreenCapture running the macOS probe on every platform
AfterCriticalOnAnyPlatform(i) == Goto(i, "pgrep", 1)

\* detectScreenCapture from line 211 on
AfterCritical(i) ==
  IF platform = "darwin" THEN Goto(i, "pgrep", 1) ELSE AfterMacOS(i)

passFrame == <<envVars, processListing, screenProtectionActive, appQuit, reply,
               rendererResponses, scan, permVars, hookVars>>

\* the critical check skipped in development mode
CheckSpecificProcessesDoneDevSkips(i, ok) ==
  /\ ~appQuit
  /\ passes[i].pc = "critical"
  /\ IF ok /\ ~developmentMode
          /\ \E proc \in criticalProcesses :
                 Includes(ToLowerCase(processListing), proc)
       THEN Return(i, "critical")
       ELSE AfterCritical(i)
  /\ UNCHANGED <<passFrame, detectedProcess>>

\* checkSpecificProcesses(criticalProcesses): the listing command ends
CheckSpecificProcessesDone(i, ok) ==
  /\ ~appQuit
  /\ passes[i].pc = "critical"
  /\ IF ok /\ \E proc \in criticalProcesses :
                 Includes(ToLowerCase(processListing), proc)
       THEN Return(i, "critical")
       ELSE AfterCritical(i)
  /\ UNCHANGED <<passFrame, detectedProcess>>

\* the pgrep loop without its inner try/catch: a rejection ends the probe in
\* the outer catch, which returns false
PgrepDoneFailureAborts(i, out) ==
  /\ ~appQuit
  /\ passes[i].pc = "pgrep"
  /\ IF out = "match"
       THEN Return(i, "macos")
       ELSE IF out = "fail"
         THEN AfterMacOS(i)
         ELSE IF passes[i].idx < Len(screenRecordingProcesses)
           THEN Goto(i, "pgrep", passes[i].idx + 1)
           ELSE Goto(i, "lsof", 0)
  /\ UNCHANGED <<passFrame, detectedProcess>>

\* detectMacOSScreenCapture, method 1: one pgrep -f of the loop ends
PgrepDone(i, out) ==
  /\ ~appQuit
  /\ passes[i].pc = "pgrep"
  /\ IF out = "match"
       THEN Return(i, "macos")
       ELSE IF passes[i].idx < Len(screenRecordingProcesses)
         THEN Goto(i, "pgrep", passes[i].idx + 1)
         ELSE Goto(i, "lsof", 0)
  /\ UNCHANGED <<passFrame, detectedProcess>>

\* method 2: lsof | grep "Screen Capture"
LsofDone(i, out) ==
  /\ ~appQuit
  /\ passes[i].pc = "lsof"
  /\ IF out = "match" THEN Return(i, "macos") ELSE Goto(i, "psgrep", 0)
  /\ UNCHANGED <<passFrame, detectedProcess>>

\* method 3: ps aux | grep -i screenshot | grep -v grep
PsGrepDone(i, out) ==
  /\ ~appQuit
  /\ passes[i].pc = "psgrep"
  /\ IF out = "match" THEN Return(i, "macos") ELSE Goto(i, "console", 0)
  /\ UNCHANGED <<passFrame, detectedProcess>>

\* method 4: lsof /dev/console, then back in detectScreenCapture
ConsoleDone(i, out) ==
  /\ ~appQuit
  /\ passes[i].pc = "console"
  /\ IF out = "match" THEN Return(i, "macos") ELSE AfterMacOS(i)
  /\ UNCHANGED <<passFrame, detectedProcess>>

\* checkSuspiciousProcesses counting a failed listing command as a detection
CheckSuspiciousProcessesDoneFailsClosed(i, ok) ==
  /\ ~appQuit
  /\ passes[i].pc = "suspicious"
  /\ IF ~ok \/ \E proc \in suspiciousProcesses :
                  Includes(ToLowerCase(processListing), proc)
       THEN Return(i, "suspicious")
       ELSE IF platform = "win32"
         THEN Goto(i, "wmic", 0)
         ELSE Return(i, "none")
  /\ UNCHANGED <<passFrame, detectedProcess>>

\* checkSuspiciousProcesses: the listing command ends
CheckSuspiciousProcessesDone(i, ok) ==
  /\ ~appQuit
  /\ passes[i].pc = "suspicious"
  /\ IF ok /\ \E proc \in suspiciousProcesses :
                 Includes(ToLowerCase(processListing), proc)
       THEN Return(i, "suspicious")
       ELSE IF platform = "win32"
         THEN Goto(i, "wmic", 0)
         ELSE Return(i, "none")
  /\ UNCHANGED <<passFrame, detectedProcess>>

\* detectWindowsScreenCapture: wmic ends
DetectWindowsScreenCaptureDone(i, ok) ==
  /\ ~appQuit
  /\ passes[i].pc = "wmic"
  /\ IF ok /\ \E proc \in captureProcesses :
                 RegExpTest(proc, ToLowerCase(processListing))
       THEN /\ detectedProcess' = "winlogon.exe"
            /\ Return(i, "windows")
       ELSE /\ UNCHANGED detectedProcess
            /\ Return(i, "none")
  /\ UNCHANGED passFrame

\* a process starts or exits
ProcessTableChanges ==
  /\ ~appQuit
  /\ processListing' \in ProcessListings \ {processListing}
  /\ UNCHANGED <<envVars, scan, permVars, hookVars,
                 mainVars, rendererResponses>>

(***************************************************************************)
(* Renderer: handleScreenshotDetected of useScreenshotProtection.          *)
(***************************************************************************)
\* delay of logout() after window.confirm
LogoutDelay(userConfirmed) == IF userConfirmed THEN 500 ELSE 100

\* window.confirm is open: the renderer's thread is blocked in it
RendererBlocked ==
  \E r \in DOMAIN rendererResponses : rendererResponses[r].phase = "confirm"

\* handleKeyDown on a screenshot shortcut: handleScreenshotDetected up to
\* window.confirm
HandleKeyDown ==
  /\ ~appQuit
  /\ ~RendererBlocked
  /\ Len(rendererResponses) < MaxRendererResponses
  /\ rendererResponses' = Append(rendererResponses,
       [phase |-> "confirm", userConfirmed |-> "pending", delay |-> 0,
        elapsed |-> 0])
  /\ UNCHANGED <<envVars, scan, permVars, hookVars,
                 processListing, mainVars>>

\* window.confirm returns: setTimeout(logout, userConfirmed ? 500 : 100)
ConfirmReturns(r, userConfirmed) ==
  /\ ~appQuit
  /\ r \in DOMAIN rendererResponses
  /\ rendererResponses[r].phase = "confirm"
  /\ rendererResponses' = [rendererResponses EXCEPT ![r] =
       [phase |-> "delay",
        userConfirmed |-> IF userConfirmed THEN "ok" ELSE "cancel",
        delay |-> LogoutDelay(userConfirmed), elapsed |-> 0]]
  /\ UNCHANGED <<envVars, scan, permVars, hookVars,
                 processListing, mainVars>>

\* the setTimeout callback: logout()
LogoutTimerFires(r) ==
  /\ ~appQuit
  /\ ~RendererBlocked
  /\ r \in DOMAIN rendererResponses
  /\ rendererResponses[r].phase = "delay"
  /\ rendererResponses[r].elapsed >= rendererResponses[r].delay
  /\ rendererResponses' = [rendererResponses EXCEPT ![r].phase = "logout"]
  /\ UNCHANGED <<envVars, scan, permVars, hookVars,
                 processListing, mainVars>>

(***************************************************************************)
(* Time: the grace timers of the two responses.                            *)
(***************************************************************************)
Min(S) == CHOOSE x \in S : \A y \in S : x <= y

Pending(rs) == {r \in DOMAIN rs : rs[r].phase = "delay"}
Due(rs) == {r \in Pending(rs) : rs[r].elapsed >= rs[r].delay}
Remaining(rs) == {rs[r].delay - rs[r].elapsed : r \in Pending(rs) \ Due(rs)}

Elapse(rs, d) ==
  [r \in DOMAIN rs |->
     IF rs[r].phase = "delay"
       THEN [rs[r] EXCEPT !.elapsed = IF @ + d > MaxElapsed THEN MaxElapsed ELSE @ + d]
       ELSE rs[r]]

\* time passes up to the next timer that is due; a timer callback that is due
\* runs before more time passes, unless its thread is blocked in window.confirm
AdvanceTime ==
  /\ ~appQuit
  /\ Pending(responses) \cup Pending(rendererResponses) # {}
  /\ Due(responses) = {}
  /\ Due(rendererResponses) = {} \/ RendererBlocked
  /\ LET left == Remaining(responses) \cup Remaining(rendererResponses)
         d == IF left # {} THEN Min(left) ELSE MaxElapsed
     IN  /\ responses' = Elapse(responses, d)
         /\ rendererResponses' = Elapse(rendererResponses, d)
  /\ UNCHANGED <<envVars, scan, permVars, hookVars,
                 processListing, isMonitoring, screenProtectionActive,
                 screenCaptureCheckInterval, activeTimers, detectedProcess,
                 passes, sent, appQuit, reply>>

ExecOutcomes == {"fail", "empty", "match"}

\* a command whose exit status is that of pgrep or of grep: status 1 when
\* nothing matched, which execAsync turns into a rejection
GrepOutcomes == {"fail", "match"}

\* the main process
MainNext ==
  \/ IpcStartScreenProtection
  \/ IpcStopScreenProtection
  \/ \E t \in activeTimers : Tick(t)
  \/ \E i \in PassIds, ok \in BOOLEAN : CheckSpecificProcessesDone(i, ok)
  \/ \E i \in PassIds, out \in GrepOutcomes : PgrepDone(i, out)
  \/ \E i \in PassIds, out \in GrepOutcomes : LsofDone(i, out)
  \/ \E i \in PassIds, out \in GrepOutcomes : PsGrepDone(i, out)
  \/ \E i \in PassIds, out \in ExecOutcomes : ConsoleDone(i, out)
  \/ \E i \in PassIds, ok \in BOOLEAN : CheckSuspiciousProcessesDone(i, ok)
  \/ \E i \in PassIds, ok \in BOOLEAN : DetectWindowsScreenCaptureDone(i, ok)
  \/ ProcessTableChanges
  \/ \E r \in DOMAIN responses, response \in {0, 1} : DialogResolved(r, response)
  \/ \E r \in DOMAIN responses : QuitTimerFires(r)

\* the response handler of the renderer
RendererResponseNext ==
  \/ HandleKeyDown
  \/ \E r \in DOMAIN rendererResponses, ok \in BOOLEAN : ConfirmReturns(r, ok)
  \/ \E r \in DOMAIN rendererResponses : LogoutTimerFires(r)

\* the main process alone: the renderer's handler does not write its state
MainSpec == Init /\ [][MainNext \/ AdvanceTime]_vars

\* the renderer's response handler alone
RendererSpec == Init /\ [][RendererResponseNext \/ AdvanceTime]_vars

\* the two responses, with detections coming from the critical check
ResponseNext ==
  \/ IpcStartScreenProtection
  \/ IpcStopScreenProtection
  \/ \E t \in activeTimers : Tick(t)
  \/ \E i \in PassIds, ok \in BOOLEAN : CheckSpecificProcessesDone(i, ok)
  \/ \E r \in DOMAIN responses, response \in {0, 1} : DialogResolved(r, response)
  \/ \E r \in DOMAIN responses : QuitTimerFires(r)
  \/ RendererResponseNext
  \/ AdvanceTime

\* one environment in which detections occur (the responses read none of it):
\* the production build on win32, protection not disabled, obs running
ResponseInit ==
  /\ Init
  /\ platform = "win32"
  /\ ~developmentMode
  /\ ~disableScreenProtection
  /\ processListing = <<"o","b","s">>

ResponseSpec == ResponseInit /\ [][ResponseNext]_vars

\* the detector with a process table that stays as it is during the run
DetectorNext ==
  \/ IpcStartScreenProtection
  \/ IpcStopScreenProtection
  \/ \E t \in activeTimers : Tick(t)
  \/ \E i \in PassIds, ok \in BOOLEAN : CheckSpecificProcessesDone(i, ok)
  \/ \E i \in PassIds, out \in GrepOutcomes : PgrepDone(i, out)
  \/ \E i \in PassIds, out \in GrepOutcomes : LsofDone(i, out)
  \/ \E i \in PassIds, out \in GrepOutcomes : PsGrepDone(i, out)
  \/ \E i \in PassIds, out \in ExecOutcomes : ConsoleDone(i, out)
  \/ \E i \in PassIds, ok \in BOOLEAN : CheckSuspiciousProcessesDone(i, ok)
  \/ \E i \in PassIds, ok \in BOOLEAN : DetectWindowsScreenCaptureDone(i, ok)
  \/ \E r \in DOMAIN responses, response \in {0, 1} : DialogResolved(r, response)
  \/ \E r \in DOMAIN responses : QuitTimerFires(r)
  \/ AdvanceTime

\* a capture tool runs, or only processes of the system do
DetectorInit ==
  /\ Init
  /\ processListing \in { <<"o","b","s">>,
                          <<"C","a","m","t","a","s","i","a">>,
                          <<"w","i","n","l","o","g","o","n",".","e","x","e">> }

DetectorSpec == DetectorInit /\ [][DetectorNext]_vars

(***************************************************************************)
(* Process Scanner: checkSpecificProcesses and checkSuspiciousProcesses as *)
(* functions of their argument and of the listing command's outcome.       *)
(***************************************************************************)
\* signatures a caller may pass in one list
MaxSignatures == 2

Range(f) == {f[k] : k \in DOMAIN f}

\* criticalProcesses of detectScreenCapture, in the order of the array
criticalProcessNames ==
  << <<"o","b","s">>, <<"o","b","s","6","4">>,
     <<"o","b","s","-","s","t","u","d","i","o">>,
     <<"b","a","n","d","i","c","a","m">>, <<"f","r","a","p","s">> >>

\* the strings a processNames array is made of
SignaturePool ==
  { <<"o","b","s">>, <<"O","B","S">>, <<"c","a","m","t","a","s","i","a">>, <<>> }

\* the arguments of checkSpecificProcesses(processNames: string[])
ProcessNameLists ==
  {criticalProcessNames} \cup
  UNION {[1..n -> SignaturePool] : n \in 0..MaxSignatures}

\* processNames.find(proc => processes.includes(proc)): the first name that
\* occurs in processes, in a list that is empty when none does
Find(processNames, processes) ==
  LET hits == {k \in DOMAIN processNames : Includes(processes, processNames[k])}
  IN  IF hits = {} THEN <<>> ELSE <<processNames[Min(hits)]>>

\* checkSpecificProcesses with includes applied to stdout as printed
CheckSpecificProcessesAsPrinted(processNames, stdout, ok) ==
  IF ~ok
    THEN FALSE
    ELSE LET detected == Find(processNames, stdout)
         IN  detected # <<>> /\ Len(detected[1]) > 0

\* checkSpecificProcesses(processNames): ok is false when execAsync rejects;
\* if (detected) is true of a string that was found and is not empty
CheckSpecificProcesses(processNames, stdout, ok) ==
  IF ~ok
    THEN FALSE
    ELSE LET processes == ToLowerCase(stdout)
             detected == Find(processNames, processes)
         IN  detected # <<>> /\ Len(detected[1]) > 0

\* checkSuspiciousProcesses(): this.suspiciousProcesses.some(...)
CheckSuspiciousProcesses(stdout, ok) ==
  IF ~ok
    THEN FALSE
    ELSE LET processes == ToLowerCase(stdout)
         IN  \E proc \in suspiciousProcesses : Includes(processes, proc)

scanFrame == <<envVars, processListing, mainVars, rendererResponses, permVars,
               hookVars>>

\* a call of checkSpecificProcesses returns
CheckSpecificProcessesCall(processNames, ok) ==
  /\ scan' = [fn |-> "checkSpecificProcesses", processNames |-> processNames,
              stdout |-> processListing, ok |-> ok,
              result |-> CheckSpecificProcesses(processNames, processListing, ok)]
  /\ UNCHANGED scanFrame

\* a call of checkSuspiciousProcesses returns
CheckSuspiciousProcessesCall(ok) ==
  /\ scan' = [fn |-> "checkSuspiciousProcesses", processNames |-> <<>>,
              stdout |-> processListing, ok |-> ok,
              result |-> CheckSuspiciousProcesses(processListing, ok)]
  /\ UNCHANGED scanFrame

ScanNext ==
  \/ \E processNames \in ProcessNameLists, ok \in BOOLEAN :
       CheckSpecificProcessesCall(processNames, ok)
  \/ \E ok \in BOOLEAN : CheckSuspiciousProcessesCall(ok)
  \/ ProcessTableChanges

\* the process scans alone
ScanSpec == Init /\ [][ScanNext]_vars

(***************************************************************************)
(* Permission Broker: check-screen-permission / request-screen-permission. *)
(***************************************************************************)
\* permission requests the main process handles in one behaviour
MaxPermissionCalls == 3

\* what desktopCapturer.getSources does: it rejects, or resolves with no
\* source or with the screen
GetSourcesOutcomes == {"rejected", "empty", "screen"}

permFrame == <<envVars, processListing, mainVars, rendererResponses, scan,
               hookVars>>

\* check-screen-permission answering from the first answer it gave
IpcCheckScreenPermissionCached(threw) ==
  /\ ~appQuit
  /\ Len(permissionCalls) < MaxPermissionCalls
  /\ permissionCalls' = Append(permissionCalls,
       IF platform = "darwin"
         THEN [channel |-> "check-screen-permission",
               osCall |-> "getMediaAccessStatus", error |-> threw,
               status |-> osConsent,
               result |-> IF permissionCalls # <<>>
                            THEN permissionCalls[1].result
                            ELSE ~threw /\ osConsent = "granted"]
         ELSE [channel |-> "check-screen-permission", osCall |-> "none",
               error |-> FALSE, status |-> osConsent, result |-> TRUE])
  /\ UNCHANGED <<osConsent, permFrame>>

\* ipcMain.handle('check-screen-permission') with
\* checkMacOSScreenRecordingPermission: threw is true when
\* getMediaAccessStatus throws
IpcCheckScreenPermission(threw) ==
  /\ ~appQuit
  /\ Len(permissionCalls) < MaxPermissionCalls
  /\ permissionCalls' = Append(permissionCalls,
       IF platform = "darwin"
         THEN [channel |-> "check-screen-permission",
               osCall |-> "getMediaAccessStatus", error |-> threw,
               status |-> osConsent,
               result |-> ~threw /\ osConsent = "granted"]
         ELSE [channel |-> "check-screen-permission", osCall |-> "none",
               error |-> FALSE, status |-> osConsent, result |-> TRUE])
  /\ UNCHANGED <<osConsent, permFrame>>

\* request-screen-permission without the platform tests of the handler and of
\* requestMacOSScreenRecordingPermission
IpcRequestScreenPermissionOnAnyPlatform(sources, answer) ==
  /\ ~appQuit
  /\ Len(permissionCalls) < MaxPermissionCalls
  /\ answer \in (IF osConsent = "not-determined" THEN ConsentStatuses
                                                  ELSE {osConsent})
  /\ osConsent' = answer
  /\ permissionCalls' = Append(permissionCalls,
       [channel |-> "request-screen-permission", osCall |-> "getSources",
        error |-> (sources = "rejected"), status |-> answer,
        result |-> (sources = "screen")])
  /\ UNCHANGED permFrame

\* ipcMain.handle('request-screen-permission') with
\* requestMacOSScreenRecordingPermission: getSources makes the OS prompt when
\* the user has not decided yet; answer is the consent status after the call
IpcRequestScreenPermission(sources, answer) ==
  /\ ~appQuit
  /\ Len(permissionCalls) < MaxPermissionCalls
  /\ IF platform = "darwin"
       THEN /\ answer \in (IF osConsent = "not-determined" THEN ConsentStatuses
                                                            ELSE {osConsent})
            /\ osConsent' = answer
            /\ permissionCalls' = Append(permissionCalls,
                 [channel |-> "request-screen-permission",
                  osCall |-> "getSources", error |-> (sources = "rejected"),
                  status |-> answer, result |-> (sources = "screen")])
       ELSE /\ answer = osConsent
            /\ sources = "screen"
            /\ UNCHANGED osConsent
            /\ permissionCalls' = Append(permissionCalls,
                 [channel |-> "request-screen-permission", osCall |-> "none",
                  error |-> FALSE, status |-> osConsent, result |-> TRUE])
  /\ UNCHANGED permFrame

\* the user changes the consent in the system settings
OsConsentChanges ==
  /\ ~appQuit
  /\ platform = "darwin"
  /\ osConsent' \in ConsentStatuses \ {osConsent}
  /\ UNCHANGED <<permissionCalls, permFrame>>

PermissionNext ==
  \/ \E threw \in BOOLEAN : IpcCheckScreenPermission(threw)
  \/ \E sources \in GetSourcesOutcomes, answer \in ConsentStatuses :
       IpcRequestScreenPermission(sources, answer)
  \/ OsConsentChanges

\* the permission handlers read the platform only
PermissionInit ==
  /\ Init
  /\ ~developmentMode
  /\ ~disableScreenProtection
  /\ processListing = <<"c","h","r","o","m","e">>

\* the permission handlers alone
PermissionSpec == PermissionInit /\ [][PermissionNext]_vars

(***************************************************************************)
(* Renderer: the two instances of useScreenshotProtection, the consent     *)
(* modal and the protection effect of InnerApp.  An ipcRenderer.invoke is  *)
(* an entry of invokes: sent by the renderer, handled by the main process  *)
(* in the order sent, and resumed in the renderer in that order.           *)
(***************************************************************************)
\* ipcRenderer.invoke calls that await their reply at one time
MaxInFlight == 3

\* an invoke of channel by hook h; next is what the caller does after the
\* await, permitted whether some hook had hasPermission when it was sent
Invoke(h, channel, next) ==
  [hook |-> h, channel |-> channel, stage |-> "sent", success |-> FALSE,
   next |-> next, permitted |-> \E g \in Hooks : hasPermission[g]]

\* startProtection() of hook h, called with the requests r = [q, n] so far and
\* the flags ref: a request is sent unless the flag is set
StartProtection(r, ref, h, next) ==
  IF ref[h]
    THEN [r EXCEPT !.n[h].stop = 0]
    ELSE [q |-> Append(r.q, Invoke(h, "start-screen-protection", next)),
          n |-> [r.n EXCEPT ![h] = [start |-> @.start + 1, stop |-> 0]]]

\* stopProtection() of hook h: a request is sent unless the flag is clear
StopProtection(r, ref, h) ==
  IF ~ref[h]
    THEN [r EXCEPT !.n[h].start = 0]
    ELSE [q |-> Append(r.q, Invoke(h, "stop-screen-protection", "none")),
          n |-> [r.n EXCEPT ![h] = [start |-> 0, stop |-> @.stop + 1]]]

\* the protection effect of InnerApp runs again: the cleanup of the last run,
\* then the body
ProtectionEffect(r, ref, authenticated, consent) ==
  LET cleaned == StopProtection(r, ref, "InnerApp")
  IN  IF authenticated /\ consent
        THEN StartProtection(cleaned, ref, "InnerApp", "none")
        ELSE StopProtection(cleaned, ref, "InnerApp")

\* isMacOS of PrivacyConsentModal
IsMacOS == platformInfo["PrivacyConsentModal"] = "darwin"

RequestsSoFar == [q |-> invokes, n |-> requestsSent]

hookFrame == <<envVars, processListing, detectedProcess, passes, responses,
               sent, appQuit, rendererResponses, scan, permissionCalls>>

\* initializePlatformInfo resumes with the reply of check-platform-info and
\* invokes check-screen-permission
PlatformInfoReplied(h) ==
  /\ ~appQuit
  /\ initializePlatformInfo[h] = "check-platform-info"
  /\ platformInfo' = [platformInfo EXCEPT ![h] = platform]
  /\ initializePlatformInfo' =
       [initializePlatformInfo EXCEPT ![h] = "check-screen-permission"]
  /\ UNCHANGED <<hookFrame, schedVars, screenProtectionActive, reply, osConsent,
                 isProtectionActiveRef, hasPermission, invokes, requestsSent,
                 isAuthenticated, privacyConsentGiven, showPrivacyConsent>>

\* initializePlatformInfo resumes with the reply of check-screen-permission
ScreenPermissionReplied(h, threw) ==
  /\ ~appQuit
  /\ initializePlatformInfo[h] = "check-screen-permission"
  /\ hasPermission' = [hasPermission EXCEPT ![h] =
       IF platform = "darwin" THEN ~threw /\ osConsent = "granted" ELSE TRUE]
  /\ initializePlatformInfo' = [initializePlatformInfo EXCEPT ![h] = "done"]
  /\ UNCHANGED <<hookFrame, schedVars, screenProtectionActive, reply, osConsent,
                 isProtectionActiveRef, platformInfo, invokes, requestsSent,
                 isAuthenticated, privacyConsentGiven, showPrivacyConsent>>

\* the Grant Permission button of the modal: requestScreenPermission with the
\* reply of request-screen-permission
RequestScreenPermission(sources, answer) ==
  /\ ~appQuit
  /\ showPrivacyConsent
  /\ IsMacOS
  /\ ~hasPermission["PrivacyConsentModal"]
  /\ answer \in (IF platform # "darwin" THEN {osConsent}
                 ELSE IF osConsent = "not-determined" THEN ConsentStatuses
                 ELSE {osConsent})
  /\ osConsent' = answer
  /\ hasPermission' = [hasPermission EXCEPT !["PrivacyConsentModal"] =
       IF platform = "darwin" THEN sources = "screen" ELSE TRUE]
  /\ UNCHANGED <<hookFrame, schedVars, screenProtectionActive, reply,
                 isProtectionActiveRef, platformInfo, invokes, requestsSent,
                 initializePlatformInfo, isAuthenticated, privacyConsentGiven,
                 showPrivacyConsent>>

\* onConsent(true) of handleAccept: handlePrivacyConsent, and the protection
\* effect when privacyConsentGiven has changed
OnConsent(r, ref) ==
  /\ privacyConsentGiven' = TRUE
  /\ showPrivacyConsent' = FALSE
  /\ LET after == IF privacyConsentGiven
                    THEN r
                    ELSE ProtectionEffect(r, ref, isAuthenticated, TRUE)
     IN  /\ Len(after.q) <= MaxInFlight
         /\ invokes' = after.q
         /\ requestsSent' = after.n

\* the accept button of the modal, enabled unless isMacOS && !hasPermission:
\* handleAccept up to its await of startProtection
HandleAccept ==
  /\ ~appQuit
  /\ showPrivacyConsent
  /\ ~(IsMacOS /\ ~hasPermission["PrivacyConsentModal"])
  /\ Len(invokes) < MaxInFlight
  /\ LET after == StartProtection(RequestsSoFar, isProtectionActiveRef,
                                  "PrivacyConsentModal", "onConsent")
     IN  /\ invokes' = after.q
         /\ requestsSent' = after.n
  /\ UNCHANGED <<hookFrame, schedVars, screenProtectionActive, reply, osConsent,
                 isProtectionActiveRef, hasPermission, platformInfo,
                 initializePlatformInfo, isAuthenticated, privacyConsentGiven,
                 showPrivacyConsent>>

\* the 'app-quit' message of handlePrivacyConsent(false): ipcRenderer.send,
\* queued behind the invokes sent before it and never replied to
AppQuitMessage == Invoke("InnerApp", "app-quit", "none")

\* handleDecline whose onConsent(false) does not send 'app-quit'
HandleDeclineWithoutQuit ==
  /\ ~appQuit
  /\ showPrivacyConsent
  /\ privacyConsentGiven' = FALSE
  /\ showPrivacyConsent' = FALSE
  /\ UNCHANGED <<hookFrame, schedVars, screenProtectionActive, reply, osConsent,
                 isProtectionActiveRef, hasPermission, platformInfo, invokes,
                 requestsSent, initializePlatformInfo, isAuthenticated>>

\* the Exit App button of the modal: handleDecline, with onConsent(false) =
\* handlePrivacyConsent(false); privacyConsentGiven does not change, so the
\* protection effect does not run
HandleDecline ==
  /\ ~appQuit
  /\ showPrivacyConsent
  /\ privacyConsentGiven' = FALSE
  /\ showPrivacyConsent' = FALSE
  /\ invokes' = Append(invokes, AppQuitMessage)
  /\ UNCHANGED <<hookFrame, schedVars, screenProtectionActive, reply, osConsent,
                 isProtectionActiveRef, hasPermission, platformInfo,
                 requestsSent, initializePlatformInfo, isAuthenticated>>

\* ipcMain.on('app-quit'): the main process reaches the message and calls
\* app.quit()
IpcAppQuit ==
  /\ ~appQuit
  /\ \E k \in DOMAIN invokes :
       /\ invokes[k].stage = "sent"
       /\ \A j \in 1..(k - 1) : invokes[j].stage = "replied"
       /\ invokes[k].channel = "app-quit"
  /\ appQuit' = TRUE
  /\ UNCHANGED <<envVars, processListing, detectedProcess, passes, responses,
                 sent, rendererResponses, scan, permVars, hookVars, schedVars,
                 screenProtectionActive, reply>>

\* the main process handles the oldest invoke it has not handled yet
IpcMainHandles(k) ==
  /\ ~appQuit
  /\ k \in DOMAIN invokes
  /\ invokes[k].stage = "sent"
  /\ invokes[k].channel # "app-quit"
  /\ \A j \in 1..(k - 1) : invokes[j].stage = "replied"
  /\ IF invokes[k].channel = "start-screen-protection"
       THEN StartScreenProtectionHandler
       ELSE StopScreenProtectionHandler
  /\ invokes' = [invokes EXCEPT ![k].stage = "replied", ![k].success = TRUE]
  /\ UNCHANGED <<hookFrame, osConsent, isProtectionActiveRef, hasPermission,
                 platformInfo, requestsSent, initializePlatformInfo,
                 isAuthenticated, privacyConsentGiven, showPrivacyConsent>>

\* startProtection or stopProtection resumes with its reply and sets the
\* flag; handleAccept then goes on with onConsent(true)
InvokeResumes ==
  /\ ~appQuit
  /\ invokes # <<>>
  /\ invokes[1].stage = "replied"
  /\ LET reply1 == invokes[1]
         ref == IF reply1.success
                  THEN [isProtectionActiveRef EXCEPT ![reply1.hook] =
                          (reply1.channel = "start-screen-protection")]
                  ELSE isProtectionActiveRef
         left == [q |-> Tail(invokes), n |-> requestsSent]
     IN  /\ isProtectionActiveRef' = ref
         /\ IF reply1.next = "onConsent"
              THEN OnConsent(left, ref)
              ELSE /\ invokes' = left.q
                   /\ UNCHANGED <<requestsSent, privacyConsentGiven,
                                  showPrivacyConsent>>
  /\ UNCHANGED <<hookFrame, schedVars, screenProtectionActive, reply, osConsent,
                 hasPermission, platformInfo, initializePlatformInfo,
                 isAuthenticated>>

\* login, restored session or logout: isAuthenticated changes and the
\* protection effect of InnerApp runs again
AuthenticationChanges ==
  /\ ~appQuit
  /\ isAuthenticated' = ~isAuthenticated
  /\ LET after == ProtectionEffect(RequestsSoFar, isProtectionActiveRef,
                                   ~isAuthenticated, privacyConsentGiven)
     IN  /\ Len(after.q) <= MaxInFlight
         /\ invokes' = after.q
         /\ requestsSent' = after.n
  /\ UNCHANGED <<hookFrame, schedVars, screenProtectionActive, reply, osConsent,
                 isProtectionActiveRef, hasPermission, platformInfo,
                 initializePlatformInfo, privacyConsentGiven,
                 showPrivacyConsent>>

HookNext ==
  \/ \E h \in Hooks : PlatformInfoReplied(h)
  \/ \E h \in Hooks, threw \in BOOLEAN : ScreenPermissionReplied(h, threw)
  \/ \E sources \in GetSourcesOutcomes, answer \in ConsentStatuses :
       RequestScreenPermission(sources, answer)
  \/ HandleAccept
  \/ HandleDecline
  \/ \E k \in DOMAIN invokes : IpcMainHandles(k)
  \/ IpcAppQuit
  \/ InvokeResumes
  \/ AuthenticationChanges
  \/ OsConsentChanges

\* the environment the start/stop protocol does not read is fixed
HookInit ==
  /\ Init
  /\ ~developmentMode
  /\ ~disableScreenProtection
  /\ processListing = <<"c","h","r","o","m","e">>

\* the renderer's start/stop protocol with the main process
HookSpec == HookInit /\ [][HookNext]_vars

\* the main process handles every message it has received: its event loop
\* runs the handler of a queued IPC message as soon as it is idle
HookFairSpec ==
  /\ HookSpec
  /\ WF_vars(\E k \in DOMAIN invokes : IpcMainHandles(k))
  /\ WF_vars(IpcAppQuit)

Next ==
  \/ MainNext
  \/ RendererResponseNext
  \/ AdvanceTime
  \/ ScanNext
  \/ PermissionNext
  \/ HookNext

\* the whole system
Spec == Init /\ [][Next]_vars

(***************************************************************************)
(* Properties.                                                             *)
(***************************************************************************)
Alerting == {r \in DOMAIN responses : responses[r].phase = "alerting"}
Detected == {i \in PassIds : passes[i].result \notin {"pending", "none"}}

\* C1: at most one detection-cycle timer is active at any time
AtMostOneActiveTimer == Cardinality(activeTimers) <= 1

\* a timer is active again after a response stopped the scheduler
RestartedAfterResponse == Cardinality(activeTimers) = 1 /\ Len(responses) > 0

\* C2: no second response of the main process starts while the dialog of an
\* earlier one is still open
NoSecondConcurrentResponse == Cardinality(Alerting) <= 1

\* C3: detection passes never overlap: at most one pass is in flight
PassesNeverOverlap == Cardinality({i \in PassIds : InFlight(i)}) <= 1

\* C4: in the step that presents the acknowledgment dialog the scheduler is
\* already stopped: isMonitoring is false and no timer is left
SchedulerStoppedBeforeDialog ==
  [][Len(responses') > Len(responses) =>
       /\ ~isMonitoring'
       /\ screenCaptureCheckInterval' = NULL
       /\ activeTimers' = {}]_vars

\* a dialog is open after a pass found a capture tool while monitoring
DialogAfterDetection ==
  /\ Alerting # {}
  /\ Detected # {}
  /\ ~isMonitoring
  /\ screenProtectionActive

\* C5: after the user's choice the terminal action comes within 600 ms of a
\* confirm and within 1100 ms of a cancel, in both processes
TerminatesWithinBound ==
  /\ \A r \in Pending(responses) :
       responses[r].elapsed <= (IF responses[r].response = 0 THEN 600 ELSE 1100)
  /\ \A r \in Pending(rendererResponses) :
       rendererResponses[r].elapsed <=
         (IF rendererResponses[r].userConfirmed = "ok" THEN 600 ELSE 1100)

Chosen(rs) == {r \in DOMAIN rs : rs[r].phase # "alerting" /\ rs[r].phase # "confirm"}

\* C6 as stated: in both processes the delay after OK is longer than the delay
\* after Cancel, and both choices end in the same terminal action
AcknowledgeDelayLonger ==
  /\ \A a, c \in Chosen(responses) :
       responses[a].response = 0 /\ responses[c].response = 1
         => responses[a].delay > responses[c].delay
  /\ \A a, c \in Chosen(rendererResponses) :
       rendererResponses[a].userConfirmed = "ok"
         /\ rendererResponses[c].userConfirmed = "cancel"
         => rendererResponses[a].delay > rendererResponses[c].delay
  /\ \A r \in DOMAIN responses : responses[r].phase = "quit" => appQuit

\* C6 as amended: the renderer delays logout longer after OK than after
\* Cancel, the main process delays app.quit longer after Cancel than after
\* OK, and in each process both choices end in the same terminal action
AcknowledgeDelayLongerInRenderer ==
  /\ \A a, c \in Chosen(responses) :
       responses[a].response = 0 /\ responses[c].response = 1
         => responses[a].delay < responses[c].delay
  /\ \A a, c \in Chosen(rendererResponses) :
       rendererResponses[a].userConfirmed = "ok"
         /\ rendererResponses[c].userConfirmed = "cancel"
         => rendererResponses[a].delay > rendererResponses[c].delay
  /\ \A r \in DOMAIN responses : responses[r].phase = "quit" => appQuit

\* both choices have been made in both processes
BothChoicesInBothProcesses ==
  /\ \E a, c \in Chosen(responses) :
       responses[a].response = 0 /\ responses[c].response = 1
  /\ \E a, c \in Chosen(rendererResponses) :
       rendererResponses[a].userConfirmed = "ok"
         /\ rendererResponses[c].userConfirmed = "cancel"

\* C7: every pass that returns detected=true sends the notification to the
\* renderer exactly once
NotifiedOncePerDetection == Len(sent) = Cardinality(Detected)

\* C8 as stated: start while monitoring and stop while stopped change nothing
\* of the scheduler, with exactly one timer while monitoring and none while
\* stopped
StartStopIdempotent ==
  /\ [][IpcStartScreenProtection /\ isMonitoring => UNCHANGED schedVars]_vars
  /\ [][IpcStopScreenProtection /\ ~isMonitoring => UNCHANGED schedVars]_vars
  /\ [](isMonitoring => Cardinality(activeTimers) = 1)
  /\ [](~isMonitoring => Cardinality(activeTimers) = 0)

\* C8 as amended: the same, with no timer at all while monitoring when
\* DISABLE_SCREEN_PROTECTION is 'true'
StartStopIdempotentUnlessDisabled ==
  /\ [][IpcStartScreenProtection /\ isMonitoring => UNCHANGED schedVars]_vars
  /\ [][IpcStopScreenProtection /\ ~isMonitoring => UNCHANGED schedVars]_vars
  /\ [](isMonitoring =>
          Cardinality(activeTimers) = (IF disableScreenProtection THEN 0 ELSE 1))
  /\ [](~isMonitoring => Cardinality(activeTimers) = 0)

\* start has been handled and the scheduler runs its one timer
MonitoringAfterStart ==
  /\ isMonitoring
  /\ reply.channel = "start-screen-protection"
  /\ Cardinality(activeTimers) = 1
  /\ \E i \in PassIds : passes[i].pc = "done"

\* C9: with DISABLE_SCREEN_PROTECTION 'true' a start reports success and marks
\* the scheduler running, and no timer, pass or listing command ever exists
DisabledNeverScans ==
  disableScreenProtection =>
    /\ activeTimers = {}
    /\ screenCaptureCheckInterval = NULL
    /\ \A i \in PassIds : passes[i].pc = "unused"
    /\ reply.channel = "start-screen-protection" =>
         reply.success /\ isMonitoring /\ screenProtectionActive
    /\ GetScreenProtectionStatus.active = (reply.channel = "start-screen-protection")

\* with the flag set a start has reported success and the status is active
DisabledReportsActive ==
  /\ disableScreenProtection
  /\ isMonitoring
  /\ screenProtectionActive
  /\ reply = [channel |-> "start-screen-protection", success |-> TRUE]

\* C10: a critical check whose listing contains "obs" makes its pass return
\* detected=true and start the response, whatever the mode and the platform
CriticalObsDetected ==
  [][(\E i \in PassIds : CheckSpecificProcessesDone(i, TRUE))
       /\ Includes(processListing, <<"o","b","s">>)
     => /\ \E i \in PassIds :
             passes[i].result = "pending" /\ passes'[i].result = "critical"
        /\ Len(responses') = Len(responses) + 1
        /\ responses'[Len(responses')].phase = "alerting"
        /\ ~isMonitoring']_vars

\* in development mode a pass was decided by the critical check
DetectedInDevelopmentMode ==
  /\ developmentMode
  /\ \E i \in PassIds : passes[i].result = "critical"
  /\ Alerting # {}

\* the signatures a scan call matched against
Signatures ==
  IF scan.fn = "checkSuspiciousProcesses"
    THEN suspiciousProcesses
    ELSE Range(scan.processNames)

\* s is a case-insensitive substring of P
CaseInsensitiveSubstring(sig, P) == Includes(ToLowerCase(P), ToLowerCase(sig))

CheckStages ==
  {"critical", "pgrep", "lsof", "psgrep", "console", "suspicious", "wmic"}

Rank(pc) ==
  CASE pc = "unused" -> 0 [] pc = "critical" -> 1 [] pc = "pgrep" -> 2
    [] pc = "lsof" -> 3 [] pc = "psgrep" -> 4 [] pc = "console" -> 5
    [] pc = "suspicious" -> 6 [] pc = "wmic" -> 7 [] pc = "done" -> 8

\* the result a pass returns when the check at pc is positive
PositiveOf(pc) ==
  CASE pc = "critical" -> "critical"
    [] pc \in {"pgrep", "lsof", "psgrep", "console"} -> "macos"
    [] pc = "suspicious" -> "suspicious"
    [] pc = "wmic" -> "windows"
    [] OTHER -> "none"

\* the check at pc belongs to a pass in this environment
Applicable(pc) ==
  CASE pc = "critical" -> TRUE
    [] pc \in {"pgrep", "lsof", "psgrep", "console"} -> platform = "darwin"
    [] pc = "suspicious" -> ~developmentMode
    [] pc = "wmic" -> ~developmentMode /\ platform = "win32"
    [] OTHER -> FALSE

\* C12: a pass runs its checks in the order critical check, macOS probe (darwin
\* only), suspicious scan (outside development mode only), Windows heuristic
\* (win32 only), skipping none that applies; the first positive check ends the
\* pass with detected=true and no later check runs
ChecksInFixedOrder ==
  [][\A i \in PassIds :
       passes[i].pc \in CheckStages /\ passes'[i] # passes[i] =>
         \/ /\ passes'[i].pc = "done"
            /\ passes'[i].result = PositiveOf(passes[i].pc)
         \/ /\ passes'[i].pc \in CheckStages
            /\ passes'[i].result = "pending"
            /\ Applicable(passes'[i].pc)
            /\ \/ Rank(passes'[i].pc) > Rank(passes[i].pc)
               \/ /\ passes[i].pc = "pgrep" /\ passes'[i].pc = "pgrep"
                  /\ passes'[i].idx = passes[i].idx + 1
            /\ \A pc \in CheckStages :
                 Rank(passes[i].pc) < Rank(pc) /\ Rank(pc) < Rank(passes'[i].pc)
                   => ~Applicable(pc)
         \/ /\ passes'[i].pc = "done"
            /\ passes'[i].result = "none"
            /\ \A pc \in CheckStages :
                 Rank(passes[i].pc) < Rank(pc) => ~Applicable(pc)]_vars

\* on darwin a pass went through the critical check and the probe and was
\* decided by the suspicious scan
DecidedByThirdCheck ==
  /\ platform = "darwin"
  /\ \E i \in PassIds : passes[i].result = "suspicious"

\* the sub-check that follows the one at p in detectMacOSScreenCapture
NextSubCheck(p) ==
  CASE p.pc = "pgrep" /\ p.idx < Len(screenRecordingProcesses) ->
         [pc |-> "pgrep", idx |-> p.idx + 1, result |-> "pending"]
    [] p.pc = "pgrep" /\ p.idx >= Len(screenRecordingProcesses) ->
         [pc |-> "lsof", idx |-> 0, result |-> "pending"]
    [] p.pc = "lsof" -> [pc |-> "psgrep", idx |-> 0, result |-> "pending"]
    [] p.pc = "psgrep" -> [pc |-> "console", idx |-> 0, result |-> "pending"]

\* C13: in the macOS probe a sub-check that fails or does not match is followed
\* by the next sub-check; the probe returns true exactly when a sub-check
\* matched and false only after the last sub-check
SubChecksIsolated ==
  [][\A i \in PassIds :
       /\ passes[i].pc \in {"pgrep", "lsof", "psgrep"} /\ passes'[i] # passes[i] =>
            IF PgrepDone(i, "match") \/ LsofDone(i, "match") \/ PsGrepDone(i, "match")
              THEN passes'[i].pc = "done" /\ passes'[i].result = "macos"
              ELSE passes'[i] = NextSubCheck(passes[i])
       /\ passes[i].pc = "console" /\ passes'[i] # passes[i] =>
            IF ConsoleDone(i, "match")
              THEN passes'[i].pc = "done" /\ passes'[i].result = "macos"
              ELSE /\ passes'[i].pc \in {"suspicious", "done"}
                   /\ passes'[i].result \in {"pending", "none"}]_vars

\* every pgrep lookup and both grep scans of a probe have failed, and the probe
\* is at its last sub-check
ProbeWentOnAfterFailures ==
  /\ platform = "darwin"
  /\ \E i \in PassIds : passes[i].pc = "console"

\* an external command of pass i fails
CommandFails(i) ==
  \/ CheckSpecificProcessesDone(i, FALSE)
  \/ PgrepDone(i, "fail")
  \/ LsofDone(i, "fail")
  \/ PsGrepDone(i, "fail")
  \/ ConsoleDone(i, "fail")
  \/ CheckSuspiciousProcessesDone(i, FALSE)
  \/ DetectWindowsScreenCaptureDone(i, FALSE)

\* C14: a failed command makes its check negative: the pass goes on or ends
\* with false, the scheduler and the application are left as they are; the
\* application quits only through the response to a positive detection
CommandFailureIsNegative ==
  /\ [][\A i \in PassIds :
          CommandFails(i) =>
            /\ passes'[i] # passes[i]
            /\ passes'[i].result \in {"pending", "none"}
            /\ UNCHANGED <<schedVars, responses, appQuit>>]_vars
  /\ [](Len(responses) > 0 => Detected # {})
  /\ [](appQuit => \E r \in DOMAIN responses : responses[r].phase = "quit")

\* the first pass ended with false although "obs" runs, so its listing
\* commands failed; the scheduler still runs and a later pass has fired
LaterPassAfterFailedCommands ==
  /\ Includes(processListing, <<"o","b","s">>)
  /\ passes[1].result = "none"
  /\ passes[2].pc # "unused"
  /\ isMonitoring
  /\ activeTimers # {}

Checks == {k \in DOMAIN permissionCalls :
             permissionCalls[k].channel = "check-screen-permission"}
Requests == {k \in DOMAIN permissionCalls :
               permissionCalls[k].channel = "request-screen-permission"}

\* C15: on a platform other than darwin check-screen-permission and
\* request-screen-permission return true, make no OS call and change no state
NoGatingOffDarwin ==
  /\ [](platform # "darwin" =>
          \A k \in DOMAIN permissionCalls :
            permissionCalls[k].result /\ permissionCalls[k].osCall = "none")
  /\ [][platform # "darwin" /\ permissionCalls' # permissionCalls
          => UNCHANGED <<osConsent, permFrame>>]_vars

\* off darwin both handlers have answered
BothHandlersOffDarwin ==
  /\ platform = "win32"
  /\ Checks # {}
  /\ Requests # {}

\* C16: on darwin a request makes at most one prompt-triggering OS call and
\* returns the consent state that results from it, false on an OS error
RequestReturnsConsentState ==
  platform = "darwin" =>
    \A k \in Requests :
      /\ permissionCalls[k].osCall = "getSources"
      /\ permissionCalls[k].result =
           (~permissionCalls[k].error /\ permissionCalls[k].status = "granted")

\* C17: on darwin a check never calls getSources and returns true iff the
\* consent status at the time of the call is 'granted' and the query did not
\* throw, whatever earlier checks and requests returned
CheckQueriesOsEveryTime ==
  /\ [](platform = "darwin" =>
          \A k \in Checks :
            /\ permissionCalls[k].osCall = "getMediaAccessStatus"
            /\ permissionCalls[k].result =
                 (~permissionCalls[k].error /\ permissionCalls[k].status = "granted"))
  /\ [][(\E threw \in BOOLEAN : IpcCheckScreenPermission(threw))
          => UNCHANGED osConsent]_vars

\* a check returned true and a later check returned false
CheckFollowsConsentChange ==
  \E j, k \in Checks :
    /\ j < k
    /\ permissionCalls[j].result
    /\ ~permissionCalls[k].result
    /\ ~permissionCalls[k].error

\* C18: start-screen-protection and stop-screen-protection always reply with
\* a result; after a successful start the status reports active=true and
\* after a successful stop active=false, whatever was requested before
StartStopAlwaysReply ==
  /\ [][IpcStartScreenProtection =>
          reply' = [channel |-> "start-screen-protection", success |-> TRUE]]_vars
  /\ [][IpcStopScreenProtection =>
          reply' = [channel |-> "stop-screen-protection", success |-> TRUE]]_vars
  /\ [](reply.channel = "start-screen-protection" /\ reply.success
          => GetScreenProtectionStatus.active)
  /\ [](reply.channel = "stop-screen-protection" /\ reply.success
          => ~GetScreenProtectionStatus.active)

\* a stop has succeeded after an earlier start, whose timer fired, and the
\* status reports inactive
StoppedAfterStart ==
  /\ reply = [channel |-> "stop-screen-protection", success |-> TRUE]
  /\ \E i \in PassIds : passes[i].pc # "unused"
  /\ ~GetScreenProtectionStatus.active
  /\ ~isMonitoring

\* C19: one hook instance sends at most one 'start-screen-protection' request
\* for any number of startProtection calls with no stopProtection between
\* them, and at most one 'stop-screen-protection' request likewise
AtMostOneRequestPerRun ==
  \A h \in Hooks : requestsSent[h].start <= 1 /\ requestsSent[h].stop <= 1

\* C20: on darwin every 'start-screen-protection' request was sent while
\* hasPermission was true in the renderer, that is after a permission check or
\* request had returned true
NoStartBeforePermission ==
  platform = "darwin" =>
    \A k \in DOMAIN invokes :
      invokes[k].channel = "start-screen-protection" => invokes[k].permitted

StopAfterStartNotLost ==
  invokes = <<>> /\ ~(isAuthenticated /\ privacyConsentGiven)
    => ~isProtectionActiveRef["InnerApp"]

\* C23: once the renderer's handler has started a response, no second one
\* starts before the first has resolved: at most one response is between its
\* prompt and its logout
NoSecondRendererResponse ==
  Cardinality({r \in DOMAIN rendererResponses :
                 rendererResponses[r].phase \in {"confirm", "delay"}}) <= 1

\* C24: the monitoring flag and the timer handle agree: a non-null handle
\* implies isMonitoring, isMonitoring without the disable flag implies a
\* non-null handle, and with the disable flag the handle is always null
TimerHandleAgreesWithFlag ==
  /\ screenCaptureCheckInterval # NULL => isMonitoring
  /\ isMonitoring /\ ~disableScreenProtection => screenCaptureCheckInterval # NULL
  /\ disableScreenProtection => screenCaptureCheckInterval = NULL

\* a response has stopped the scheduler, and monitoring runs again with a
\* fresh handle and a pass in flight
HandleSetAgainAfterResponse ==
  /\ Len(responses) > 0
  /\ isMonitoring
  /\ screenCaptureCheckInterval # NULL
  /\ \E i \in PassIds : InFlight(i)

\* C25: get-screen-protection-status reports active=true exactly when the
\* scheduler is monitoring, also after a detection response has stopped it
StatusAgreesWithScheduler == GetScreenProtectionStatus.active = isMonitoring

\* C26: after stop-screen-protection has replied success no detection
\* response starts until protection is started again, also when a pass was in
\* flight while the stop was handled
NoResponseAfterStop ==
  [][reply.channel = "stop-screen-protection" /\ reply.success
       => Len(responses') = Len(responses)]_vars

\* C27: the renderer's detection response is triggered only while the
\* protection of a hook instance is active: no response starts while the
\* active flag of every instance is false
ResponseOnlyWhileActive ==
  [][Len(rendererResponses') > Len(rendererResponses)
       => \E h \in Hooks : isProtectionActiveRef[h]]_vars

\* C28: once no renderer call awaits a reply, the main process is monitoring
\* only if the user is authenticated and has given privacy consent
MonitoringOnlyWhenAuthenticated ==
  invokes = <<>> /\ isMonitoring => isAuthenticated /\ privacyConsentGiven

\* C29: a pass returns true only if a check matched the signature of a capture
\* tool: in production mode on win32, with winlogon.exe the only process
\* listed, every pass ends with false and no response starts
NoDetectionOfSystemProcess ==
  /\ platform = "win32"
  /\ ~developmentMode
  /\ processListing = <<"w","i","n","l","o","g","o","n",".","e","x","e">>
  => /\ \A i \in PassIds : passes[i].result \in {"pending", "none"}
     /\ responses = <<>>

\* the renderer has sent 'app-quit'
AppQuitRequested == \E k \in DOMAIN invokes : invokes[k].channel = "app-quit"

\* a start request awaits its handling or its resumption
StartRequested ==
  \E k \in DOMAIN invokes : invokes[k].channel = "start-screen-protection"

\* a handleAccept awaits the reply of its startProtection
AcceptPending == \E k \in DOMAIN invokes : invokes[k].next = "onConsent"

\* C30: when the user declines privacy consent, no start-screen-protection
\* request is sent on the way to app.quit and privacyConsentGiven stays false
DeclinedWithoutStart ==
  AppQuitRequested => ~StartRequested /\ ~privacyConsentGiven

\* C30, as the program has it: a decline sends 'app-quit' and nothing else,
\* and the main process then calls app.quit; when no accept awaits its reply
\* at the decline, privacyConsentGiven stays false and no start request is
\* sent up to the quit
DeclineLeadsToQuit ==
  /\ [][showPrivacyConsent /\ ~showPrivacyConsent' /\ ~privacyConsentGiven'
          => /\ invokes' = Append(invokes, AppQuitMessage)
             /\ requestsSent' = requestsSent]_vars
  /\ [](AppQuitRequested /\ ~AcceptPending /\ ~privacyConsentGiven
          => ~StartRequested)
  /\ [][AppQuitRequested /\ ~AcceptPending /\ ~privacyConsentGiven
          => ~AcceptPending' /\ ~privacyConsentGiven']_vars
  /\ (AppQuitRequested ~> appQuit)

\* an authenticated user has declined, with no accept under way, and the main
\* process has called app.quit
QuitAfterDecline ==
  /\ appQuit
  /\ AppQuitRequested
  /\ isAuthenticated
  /\ ~privacyConsentGiven
  /\ ~StartRequested

====
